---- MODULE Spec2Model ----
(***************************************************************************)
(* Event dispatch and handler resolution of songmam's WebhookHandler       *)
(* (src/songmam/webhook.py): the handler registry, the pattern registry    *)
(* with its lazily filled matcher cache, the dynamic resolver and the      *)
(* dispatch loop handle_webhook, run by one coroutine or by two coroutines *)
(* of one event loop.                                                      *)
(*                                                                         *)
(* Strings (payloads, pattern sources) are sequences of one-character      *)
(* strings.  A Python dict is a sequence of <<key, value>> pairs in        *)
(* insertion order.  An awaited handler is an invocation that begins in    *)
(* one step and returns (normally or by raising) in a later one.           *)
(***************************************************************************)
EXTENDS Integers, Sequences, FiniteSets, TLC

\* ------------------------------------------------------------------ bounds
\* longest batch (webhook.entry) that is dispatched
MaxBatch == 2

\* ------------------------------------------------------------ input domains
None == "None"

\* the WebhookHandler objects that are constructed (one; two under
\* SpecShared)
Instances == {"w1"}

\* the WebhookHandler objects that are constructed under SpecShared
TwoInstances == {"w1", "w2"}

\* the callable the application registers through each instance under
\* SpecShared
OwnFunc(w) == IF w = "w1" THEN "f" ELSE "g"

\* type(entry): the two types handle_webhook names, and any other event type
EntryTypes == {"MessagesEvent", "PostbackEvent", "OtherEvent"}

\* application callables passed to the registration methods
Funcs == {"f", "g"}

\* what an application callable does when it is invoked
Outcomes == {"ok", "RuntimeError", "ModuleNotFoundError"}

\* payload strings: "a:b" names an importable module and one of its
\* functions, "a:a" an importable module without that attribute, "b:b" a
\* module that cannot be imported, "ab" has no separator
Resolvable == <<"a", ":", "b">>
NoSuchFunction == <<"a", ":", "a">>
NoSuchModule == <<"b", ":", "b">>
NoSeparator == <<"a", "b">>

Payloads == {Resolvable, NoSuchFunction, NoSuchModule, NoSeparator}

\* pattern strings given to add_postback_handler: "a." and "a|b"
AnyAfterA == <<"a", ".">>
AOrB == <<"a", "|", "b">>

Patterns == {AnyAfterA, AOrB}

\* a pattern string re.compile rejects: "(" (an unterminated group)
Unterminated == <<"(">>

\* the regexes arguments given under SpecMalformed
MalformedLists == {<<AOrB>>, <<Unterminated>>, <<AOrB, Unterminated>>}

\* regexes=None of add_postback_handler, told apart from every list of
\* pattern strings
NoRegexes == << <<None>> >>

\* the regexes argument of add_postback_handler
RegexLists ==
    {NoRegexes} \cup {<<>>} \cup {<<p>> : p \in Patterns}
           \cup {<<p, q>> : p \in Patterns, q \in Patterns}

\* the regexes arguments given under SpecRegistration: None, no pattern,
\* one pattern, two patterns
RegistrationLists == {NoRegexes, <<>>, <<AOrB>>, <<AnyAfterA, AOrB>>}

MessagesEvent(is_quick_reply, payload) ==
    [type |-> "MessagesEvent", is_quick_reply |-> is_quick_reply,
     payload |-> payload]

PostbackEvent(payload) ==
    [type |-> "PostbackEvent", is_quick_reply |-> FALSE, payload |-> payload]

OtherEvent(payload) ==
    [type |-> "OtherEvent", is_quick_reply |-> FALSE, payload |-> payload]

\* the entries of the webhooks dispatched under Spec: every kind of entry
Entries ==
    { MessagesEvent(TRUE, NoSeparator), MessagesEvent(TRUE, Resolvable),
      MessagesEvent(FALSE, Resolvable), PostbackEvent(NoSeparator),
      PostbackEvent(NoSuchModule), OtherEvent(Resolvable) }

\* the entries of the webhooks dispatched under SpecDynamic: every kind of
\* payload
DynamicEntries ==
    {PostbackEvent(payload) : payload \in Payloads}
        \cup {MessagesEvent(TRUE, Resolvable), MessagesEvent(TRUE, NoSuchFunction)}

\* callables registered as pre and post hooks under SpecHooks: "g" is
\* also registered elsewhere, "h" only as a hook
HookFuncs == {"g", "h"}

\* the types handlers and hooks are registered for under SpecHooks
HookTypes == {"MessagesEvent", "PostbackEvent"}

\* the entries of the webhooks dispatched under SpecHooks
HookEntries == {MessagesEvent(TRUE, Resolvable), PostbackEvent(NoSuchModule)}

\* the entries of the webhooks dispatched under SpecShared
SharedEntries == {MessagesEvent(TRUE, NoSeparator), PostbackEvent(Resolvable)}

\* the entries of the webhooks dispatched under SpecConcurrent
ConcurrentEntries == {MessagesEvent(TRUE, NoSeparator), PostbackEvent(NoSeparator)}

\* the entries of the webhooks dispatched under SpecPattern
PatternEntries ==
    { MessagesEvent(TRUE, NoSeparator), PostbackEvent(NoSeparator),
      PostbackEvent(Resolvable) }

Batches(entries) == UNION {[1..n -> entries] : n \in 1..MaxBatch}

\* ------------------------------------------------ the import system (environment)
\* modules importlib.import_module finds
ImportableModules == { <<"a">> }

\* the attributes of an importable module, each a callable
ModuleAttrs(module) == IF module = <<"a">> THEN { <<"b">> } ELSE {}

\* the callable getattr(module, function_name) returns
ModuleFunction(module, function_name) ==
    CASE module = <<"a">> /\ function_name = <<"b">> -> "a.b"

\* ------------------------------------------------------------ Python dict
DictKeys(d) == [k \in DOMAIN d |-> d[k][1]]

DictHas(d, key) == \E k \in DOMAIN d : d[k][1] = key

DictGet(d, key) == d[CHOOSE k \in DOMAIN d : d[k][1] = key][2]

\* mutant of DictSet: the pair is added and the earlier one stays
DictSetAppend(d, key, value) == Append(d, <<key, value>>)

\* d[key] = value: an existing key keeps its position, a new key goes last
DictSet(d, key, value) ==
    IF DictHas(d, key)
    THEN [k \in DOMAIN d |-> IF d[k][1] = key THEN <<key, value>> ELSE d[k]]
    ELSE Append(d, <<key, value>>)

\* ------------------------------------------------------------ parse.parse
\* parse("{import_path}:{function_name}", payload): both fields are the
\* non-greedy ".+?", so import_path ends at the first ':' that has at
\* least one character on each side; no such ':' gives None
ParseSeparators(payload) ==
    {i \in 2..(Len(payload) - 1) : payload[i] = ":"}

\* the None that parse returns when the payload does not fit the template
NoResult == <<>>

Parse(payload) ==
    IF ParseSeparators(payload) = {}
    THEN NoResult
    ELSE LET i == CHOOSE i \in ParseSeparators(payload) :
                      \A j \in ParseSeparators(payload) : i <= j
         IN [import_path |-> SubSeq(payload, 1, i - 1),
             function_name |-> SubSeq(payload, i + 1, Len(payload))]

\* ------------------------------------------------------------ re
\* re.compile raises re.error on an unterminated group
CompileFails(source) == \E i \in DOMAIN source : source[i] = "("

RECURSIVE Alternatives(_)
\* the top-level alternatives of a pattern source, left to right
Alternatives(source) ==
    IF \E i \in DOMAIN source : source[i] = "|"
    THEN LET i == CHOOSE i \in DOMAIN source :
                      source[i] = "|" /\ \A j \in 1..(i - 1) : source[j] # "|"
         IN <<SubSeq(source, 1, i - 1)>>
                \o Alternatives(SubSeq(source, i + 1, Len(source)))
    ELSE <<source>>

\* re.compile(source): the compiled matcher, as its list of alternatives
Compile(source) == Alternatives(source)

RECURSIVE MatchHere(_, _, _, _)
\* alternative alt from position i on matches string s from position j on
MatchHere(alt, s, i, j) ==
    IF i > Len(alt) THEN TRUE
    ELSE IF alt[i] = "$"
    THEN (j = Len(s) + 1 \/ (j = Len(s) /\ s[j] = "\n"))
         /\ MatchHere(alt, s, i + 1, j)
    ELSE IF alt[i] = "."
    THEN j <= Len(s) /\ s[j] # "\n" /\ MatchHere(alt, s, i + 1, j + 1)
    ELSE j <= Len(s) /\ s[j] = alt[i] /\ MatchHere(alt, s, i + 1, j + 1)

\* bool(regex.match(s)): some alternative matches at the start of s
RegexMatch(regex, s) == \E k \in DOMAIN regex : MatchHere(regex[k], s, 1, 1)

\* ------------------------------------------------------------------ state
VARIABLES
    dynamic_import,                  \* self.dynamic_import, per instance
    uncaught_postback_handler,       \* self.uncaught_postback_handler, per instance
    webhook_handlers,                \* WebhookHandler._webhook_handlers (class attribute)
    quick_reply_callbacks,           \* WebhookHandler._quick_reply_callbacks (class attribute)
    button_callbacks,                \* WebhookHandler._button_callbacks (class attribute)
    pre_webhook_handlers,            \* self._pre_webhook_handlers, per instance
    post_webhook_handlers,           \* self._post_webhook_handlers, per instance
    quick_reply_callbacks_key_regex, \* WebhookHandler._quick_reply_callbacks_key_regex
    button_callbacks_key_regex,      \* WebhookHandler._button_callbacks_key_regex
    compiles,           \* history: per pattern source, the re.compile calls that stored a matcher
    pc,                 \* where handle_webhook stands
    self,               \* the instance handle_webhook runs on
    webhook,            \* webhook.entry of the running dispatch
    idx,                \* position of the for loop in webhook.entry
    matched_callbacks,  \* the list the current entry's callbacks are taken from
    cb,                 \* position of the for loop in matched_callbacks
    exc,                \* the exception that left handle_webhook
    trace,              \* history: the invocations handle_webhook has made
    registered,         \* history: per rule set, the patterns in order of first registration
    latest,             \* history: per rule set, the callable last registered under a pattern
    superseded,         \* history: per rule set, the callables a later registration of the pattern replaced
    other,              \* a second handle_webhook coroutine of the event loop, suspended
    cold                \* history: the <<rule set, pattern>> pairs registered and not yet
                        \* compiled when two dispatches began together

registryVars ==
    <<dynamic_import, uncaught_postback_handler, webhook_handlers,
      quick_reply_callbacks, button_callbacks,
      pre_webhook_handlers, post_webhook_handlers>>

cacheVars ==
    <<quick_reply_callbacks_key_regex, button_callbacks_key_regex, compiles>>

dispatchVars == <<pc, self, webhook, idx, matched_callbacks, cb, exc, trace>>

historyVars == <<registered, latest, superseded>>

taskVars == <<other, cold>>

vars == <<registryVars, cacheVars, dispatchVars, historyVars, taskVars>>

RuleSets == {"quick_reply", "button"}

NoExc == [type |-> None, ev |-> 0, origin |-> None]

\* the state of a handle_webhook coroutine that is not running
NoTask ==
    [pc |-> "idle", self |-> None, webhook |-> <<>>, idx |-> 0,
     matched_callbacks |-> <<>>, cb |-> 0, exc |-> NoExc, trace |-> <<>>]

Init ==
    /\ dynamic_import \in [Instances -> BOOLEAN]
    /\ uncaught_postback_handler = [w \in Instances |-> None]
    /\ webhook_handlers = [t \in EntryTypes |-> None]
    /\ quick_reply_callbacks = <<>>
    /\ button_callbacks = <<>>
    /\ pre_webhook_handlers = [w \in Instances |-> [t \in EntryTypes |-> None]]
    /\ post_webhook_handlers = [w \in Instances |-> [t \in EntryTypes |-> None]]
    /\ quick_reply_callbacks_key_regex = <<>>
    /\ button_callbacks_key_regex = <<>>
    /\ compiles = <<>>
    /\ pc = "idle"
    /\ self = None
    /\ webhook = <<>>
    /\ idx = 0
    /\ matched_callbacks = <<>>
    /\ cb = 0
    /\ exc = NoExc
    /\ trace = <<>>
    /\ registered = [s \in RuleSets |-> <<>>]
    /\ latest = [s \in RuleSets |-> [p \in Patterns |-> None]]
    /\ superseded = [s \in RuleSets |-> [p \in Patterns |-> {}]]
    /\ other = NoTask
    /\ cold = {}

\* ------------------------------------------------------------ registration
\* handler.add(entry_type)(func)
Add(w, entry_type, func) ==
    /\ pc = "idle"
    /\ webhook_handlers' = [webhook_handlers EXCEPT ![entry_type] = func]
    /\ UNCHANGED <<dynamic_import, uncaught_postback_handler,
                   quick_reply_callbacks, button_callbacks,
                   pre_webhook_handlers, post_webhook_handlers, cacheVars,
                   dispatchVars, historyVars, taskVars>>

\* mutant of AddPre: the hook goes into the class-level table of add
AddPreShared(w, entry_type, func) ==
    /\ pc = "idle"
    /\ webhook_handlers' = [webhook_handlers EXCEPT ![entry_type] = func]
    /\ UNCHANGED <<dynamic_import, uncaught_postback_handler,
                   quick_reply_callbacks, button_callbacks,
                   pre_webhook_handlers, post_webhook_handlers, cacheVars,
                   dispatchVars, historyVars, taskVars>>

\* handler.add_pre(entry_type)(func)
AddPre(w, entry_type, func) ==
    /\ pc = "idle"
    /\ pre_webhook_handlers' =
          [pre_webhook_handlers EXCEPT ![w][entry_type] = func]
    /\ UNCHANGED <<dynamic_import, uncaught_postback_handler, webhook_handlers,
                   quick_reply_callbacks, button_callbacks,
                   post_webhook_handlers, cacheVars, dispatchVars,
                   historyVars, taskVars>>

\* handler.add_post(entry_type)(func)
AddPost(w, entry_type, func) ==
    /\ pc = "idle"
    /\ post_webhook_handlers' =
          [post_webhook_handlers EXCEPT ![w][entry_type] = func]
    /\ UNCHANGED <<dynamic_import, uncaught_postback_handler, webhook_handlers,
                   quick_reply_callbacks, button_callbacks,
                   pre_webhook_handlers, cacheVars, dispatchVars,
                   historyVars, taskVars>>

RECURSIVE InsertAll(_, _, _)
\* for payload in regexes: callbacks[payload] = func
InsertAll(callbacks, regexes, func) ==
    IF regexes = <<>> THEN callbacks
    ELSE InsertAll(DictSet(callbacks, Head(regexes), func), Tail(regexes), func)

RECURSIVE FirstSeen(_, _)
\* history: order extended by the patterns of regexes it does not hold yet
FirstSeen(order, regexes) ==
    IF regexes = <<>> THEN order
    ELSE FirstSeen(IF \E k \in DOMAIN order : order[k] = Head(regexes)
                   THEN order ELSE Append(order, Head(regexes)),
                   Tail(regexes))

\* mutant of AddPostbackHandler: the callable goes into both rule sets,
\* whatever quick_reply and button say
AddPostbackHandlerBoth(w, regexes, quick_reply, button, func) ==
    /\ pc = "idle"
    /\ IF regexes = NoRegexes
       THEN UNCHANGED <<quick_reply_callbacks, button_callbacks, historyVars>>
       ELSE /\ quick_reply_callbacks' =
                  InsertAll(quick_reply_callbacks, regexes, func)
            /\ button_callbacks' = InsertAll(button_callbacks, regexes, func)
            /\ registered' =
                  [s \in RuleSets |-> FirstSeen(registered[s], regexes)]
            /\ latest' =
                  [s \in RuleSets |-> [p \in Patterns |->
                      IF \E k \in DOMAIN regexes : regexes[k] = p
                      THEN func
                      ELSE latest[s][p]]]
            /\ superseded' =
                  [s \in RuleSets |-> [p \in Patterns |->
                      IF \E k \in DOMAIN regexes : regexes[k] = p
                      THEN (superseded[s][p] \cup ({latest[s][p]} \cap Funcs)) \ {func}
                      ELSE superseded[s][p]]]
    /\ UNCHANGED <<dynamic_import, uncaught_postback_handler, webhook_handlers,
                   pre_webhook_handlers, post_webhook_handlers,
                   cacheVars, dispatchVars, taskVars>>

\* handler.add_postback_handler(regexes, quick_reply, button)(func)
AddPostbackHandler(w, regexes, quick_reply, button, func) ==
    /\ pc = "idle"
    /\ IF regexes = NoRegexes
       THEN UNCHANGED <<quick_reply_callbacks, button_callbacks, historyVars>>
       ELSE /\ quick_reply_callbacks' =
                  IF quick_reply
                  THEN InsertAll(quick_reply_callbacks, regexes, func)
                  ELSE quick_reply_callbacks
            /\ button_callbacks' =
                  IF button
                  THEN InsertAll(button_callbacks, regexes, func)
                  ELSE button_callbacks
            /\ registered' =
                  [s \in RuleSets |->
                      IF (s = "quick_reply" /\ quick_reply) \/ (s = "button" /\ button)
                      THEN FirstSeen(registered[s], regexes)
                      ELSE registered[s]]
            /\ latest' =
                  [s \in RuleSets |-> [p \in Patterns |->
                      IF /\ (s = "quick_reply" /\ quick_reply) \/ (s = "button" /\ button)
                         /\ \E k \in DOMAIN regexes : regexes[k] = p
                      THEN func
                      ELSE latest[s][p]]]
            /\ superseded' =
                  [s \in RuleSets |-> [p \in Patterns |->
                      IF /\ (s = "quick_reply" /\ quick_reply) \/ (s = "button" /\ button)
                         /\ \E k \in DOMAIN regexes : regexes[k] = p
                      THEN (superseded[s][p] \cup ({latest[s][p]} \cap Funcs)) \ {func}
                      ELSE superseded[s][p]]]
    /\ UNCHANGED <<dynamic_import, uncaught_postback_handler, webhook_handlers,
                   pre_webhook_handlers, post_webhook_handlers,
                   cacheVars, dispatchVars, taskVars>>

\* handler.set_uncaught_postback_handler(func)
SetUncaughtPostbackHandler(w, func) ==
    /\ pc = "idle"
    /\ uncaught_postback_handler' = [uncaught_postback_handler EXCEPT ![w] = func]
    /\ UNCHANGED <<dynamic_import, webhook_handlers, quick_reply_callbacks,
                   button_callbacks, pre_webhook_handlers, post_webhook_handlers,
                   cacheVars, dispatchVars, historyVars, taskVars>>

\* ------------------------------------------------------------ pattern registry
RECURSIVE GetFirstCallbackFrom(_, _, _, _, _)
\* mutant of GetCallbacksFrom: the loop stops at the first pattern that
\* matches
GetFirstCallbackFrom(callbacks, key_regex, payload, k, acc) ==
    IF k > Len(callbacks) \/ acc # <<>>
    THEN [callbacks |-> acc, key_regex |-> key_regex, error |-> FALSE]
    ELSE LET key == callbacks[k][1] IN
         IF key \notin DOMAIN key_regex /\ CompileFails(key \o <<"$">>)
         THEN [callbacks |-> acc, key_regex |-> key_regex, error |-> TRUE]
         ELSE LET cache == IF key \in DOMAIN key_regex
                           THEN key_regex
                           ELSE key_regex @@ (key :> Compile(key \o <<"$">>))
              IN GetFirstCallbackFrom(callbacks, cache, payload, k + 1,
                     IF RegexMatch(cache[key], payload)
                     THEN Append(acc, [key |-> key, func |-> callbacks[k][2]])
                     ELSE acc)

RECURSIVE GetCallbacksFrom(_, _, _, _, _)
\* the loop of get_quick_reply_callbacks / get_postback_callbacks from the
\* k-th key on: the callbacks collected, the cache as the loop leaves it,
\* and whether re.compile raised
GetCallbacksFrom(callbacks, key_regex, payload, k, acc) ==
    IF k > Len(callbacks)
    THEN [callbacks |-> acc, key_regex |-> key_regex, error |-> FALSE]
    ELSE LET key == callbacks[k][1] IN
         IF key \notin DOMAIN key_regex /\ CompileFails(key \o <<"$">>)
         THEN [callbacks |-> acc, key_regex |-> key_regex, error |-> TRUE]
         ELSE LET cache == IF key \in DOMAIN key_regex
                           THEN key_regex
                           ELSE key_regex @@ (key :> Compile(key \o <<"$">>))
              IN GetCallbacksFrom(callbacks, cache, payload, k + 1,
                     IF RegexMatch(cache[key], payload)
                     THEN Append(acc, [key |-> key, func |-> callbacks[k][2]])
                     ELSE acc)

\* self.get_quick_reply_callbacks(entry)
GetQuickReplyCallbacks(entry) ==
    GetCallbacksFrom(quick_reply_callbacks, quick_reply_callbacks_key_regex,
                     entry.payload, 1, <<>>)

\* self.get_postback_callbacks(entry)
GetPostbackCallbacks(entry) ==
    GetCallbacksFrom(button_callbacks, button_callbacks_key_regex,
                     entry.payload, 1, <<>>)

\* ------------------------------------------------------------ dispatch
\* history record of an invocation handle_webhook has begun
Call(ev, kind, func, entry, key) ==
    [ev |-> ev, kind |-> kind, func |-> func, entry |-> entry, key |-> key,
     outcome |-> "running"]

\* the trace with the outcome of the invocation in progress filled in
Returned(outcome) ==
    [trace EXCEPT ![Len(trace)] = [@ EXCEPT !.outcome = outcome]]

Goto(p, i, m, c, e, tr) ==
    /\ pc' = p
    /\ idx' = i
    /\ matched_callbacks' = m
    /\ cb' = c
    /\ exc' = e
    /\ trace' = tr

\* an exception leaves handle_webhook while it works on webhook.entry[idx]
Raise(type, origin, tr) ==
    Goto("raised", idx, <<>>, 0, [type |-> type, ev |-> idx, origin |-> origin], tr)

\* the for loop goes on to the next entry
NextEntry(tr) == Goto("entry", idx + 1, <<>>, 0, NoExc, tr)

\* for entry in webhook.entry
EntryAt(entries, i) == entries[i]

\* mutant of LookupHandler: a pre hook of the type is taken first
LookupPreFirst(entry_type) ==
    IF pre_webhook_handlers[self][entry_type] # None
    THEN pre_webhook_handlers[self][entry_type]
    ELSE webhook_handlers[entry_type]

\* mutant of LookupHandler: only message events are looked up
LookupMessagesOnly(entry_type) ==
    IF entry_type = "MessagesEvent" THEN webhook_handlers[entry_type] ELSE None

\* self._webhook_handlers.get(entry_type)
LookupHandler(entry_type) == webhook_handlers[entry_type]

\* mutant of RouteKind: the mode is taken from the shape of each payload
RouteKindByPayload(w, entry) ==
    IF (entry.type = "MessagesEvent" /\ entry.is_quick_reply)
          \/ entry.type = "PostbackEvent"
    THEN IF Parse(entry.payload) # NoResult
         THEN "dynamic"
         ELSE IF entry.type = "MessagesEvent" THEN "quick_reply" ELSE "postback"
    ELSE "none"

\* mutant of RouteKind: is_quick_reply is not looked at
RouteKindAnyMessage(w, entry) ==
    IF entry.type = "MessagesEvent"
    THEN IF dynamic_import[w] THEN "dynamic" ELSE "quick_reply"
    ELSE IF entry.type = "PostbackEvent"
    THEN IF dynamic_import[w] THEN "dynamic" ELSE "postback"
    ELSE "none"

\* which branch of lines 85-100 handles the entry on instance w
RouteKind(w, entry) ==
    IF entry.type = "MessagesEvent"
    THEN IF entry.is_quick_reply
         THEN IF dynamic_import[w] THEN "dynamic" ELSE "quick_reply"
         ELSE "none"
    ELSE IF entry.type = "PostbackEvent"
    THEN IF dynamic_import[w] THEN "dynamic" ELSE "postback"
    ELSE "none"

\* the except ModuleNotFoundError branch of call_dynamic_function
ExceptModuleNotFound(entry, tr) ==
    IF uncaught_postback_handler[self] # None
    THEN Goto("uncaught", idx, <<>>, 0, NoExc,
              Append(tr, Call(idx, "uncaught", uncaught_postback_handler[self],
                              entry, <<>>)))
    ELSE NextEntry(tr)

\* call_dynamic_function up to its first await
CallDynamicFunction(entry, tr) ==
    LET parsed == Parse(entry.payload) IN
    IF parsed = NoResult
    THEN Raise("TypeError", "router", tr)
    ELSE IF parsed.import_path \notin ImportableModules
    THEN ExceptModuleNotFound(entry, tr)
    ELSE IF parsed.function_name \notin ModuleAttrs(parsed.import_path)
    THEN Raise("AttributeError", "router", tr)
    ELSE Goto("dynamic", idx, <<>>, 0, NoExc,
              Append(tr, Call(idx, "dynamic",
                              ModuleFunction(parsed.import_path,
                                             parsed.function_name),
                              entry, <<>>)))

\* mutant of InvokeCallbacks: the callbacks are all started before any is
\* awaited
InvokeCallbacksTogether(entry, m, c, tr) ==
    IF c > Len(m)
    THEN NextEntry(tr)
    ELSE Goto("callback", idx, m, Len(m), NoExc,
              tr \o [k \in 1..(Len(m) - c + 1) |->
                         Call(idx, "callback", m[c + k - 1].func, entry,
                              m[c + k - 1].key)])

\* for callback in matched_callbacks, from its c-th element on
InvokeCallbacks(entry, m, c, tr) ==
    IF c > Len(m)
    THEN NextEntry(tr)
    ELSE Goto("callback", idx, m, c, NoExc,
              Append(tr, Call(idx, "callback", m[c].func, entry, m[c].key)))

\* history: the count of every pattern source in keys goes up by one
Counted(counts, keys) ==
    IF keys = {} THEN counts
    ELSE [key \in DOMAIN counts \cup keys |->
             (IF key \in DOMAIN counts THEN counts[key] ELSE 0)
                 + (IF key \in keys THEN 1 ELSE 0)]

\* lines 84-100 for webhook.entry[idx], up to the first await
Route(tr) ==
    LET entry == EntryAt(webhook, idx)
        kind == RouteKind(self, entry)
        found == IF kind = "quick_reply"
                 THEN GetQuickReplyCallbacks(entry)
                 ELSE GetPostbackCallbacks(entry)
    IN /\ quick_reply_callbacks_key_regex' =
             IF kind = "quick_reply"
             THEN found.key_regex
             ELSE quick_reply_callbacks_key_regex
       /\ button_callbacks_key_regex' =
             IF kind = "postback"
             THEN found.key_regex
             ELSE button_callbacks_key_regex
       /\ compiles' =
             IF kind = "quick_reply"
             THEN Counted(compiles, DOMAIN found.key_regex
                                        \ DOMAIN quick_reply_callbacks_key_regex)
             ELSE IF kind = "postback"
             THEN Counted(compiles, DOMAIN found.key_regex
                                        \ DOMAIN button_callbacks_key_regex)
             ELSE compiles
       /\ IF kind = "dynamic"
          THEN CallDynamicFunction(entry, tr)
          ELSE IF kind = "none"
          THEN NextEntry(tr)
          ELSE IF found.error
          THEN Raise("re.error", "router", tr)
          ELSE InvokeCallbacks(entry, found.callbacks, 1, tr)

\* await self.handle_webhook(webhook) begins, on instance w
HandleWebhook(w, entries) ==
    /\ pc = "idle"
    /\ self' = w
    /\ webhook' = entries
    /\ Goto("entry", 1, <<>>, 0, NoExc, <<>>)
    /\ UNCHANGED <<registryVars, cacheVars, historyVars, taskVars>>

\* top of the for loop: lines 73-82
Entry ==
    /\ pc = "entry"
    /\ IF idx > Len(webhook)
       THEN /\ Goto("done", idx, <<>>, 0, NoExc, trace)
            /\ UNCHANGED cacheVars
       ELSE LET entry == EntryAt(webhook, idx)
                handler == LookupHandler(entry.type)
            IN IF handler # None
               THEN /\ Goto("primary", idx, <<>>, 0, NoExc,
                            Append(trace, Call(idx, "primary", handler, entry, <<>>)))
                    /\ UNCHANGED cacheVars
               ELSE Route(trace)
    /\ UNCHANGED <<self, webhook, registryVars, historyVars, taskVars>>

\* mutant of PrimaryReturn: an entry that had a primary handler is not
\* routed by its payload
PrimaryReturnNoRouting(outcome) ==
    /\ pc = "primary"
    /\ IF outcome = "ok"
       THEN NextEntry(Returned(outcome))
       ELSE Raise(outcome, "handler", Returned(outcome))
    /\ UNCHANGED <<self, webhook, registryVars, cacheVars, historyVars,
                   taskVars>>

\* await handler(entry) of line 79 is over
PrimaryReturn(outcome) ==
    /\ pc = "primary"
    /\ IF outcome = "ok"
       THEN Route(Returned(outcome))
       ELSE /\ Raise(outcome, "handler", Returned(outcome))
            /\ UNCHANGED cacheVars
    /\ UNCHANGED <<self, webhook, registryVars, historyVars, taskVars>>

\* the resolved function of lines 112-114 is over
DynamicReturn(outcome) ==
    /\ pc = "dynamic"
    /\ IF outcome = "ok"
       THEN NextEntry(Returned(outcome))
       ELSE IF outcome = "ModuleNotFoundError"
       THEN ExceptModuleNotFound(EntryAt(webhook, idx), Returned(outcome))
       ELSE Raise(outcome, "handler", Returned(outcome))
    /\ UNCHANGED <<self, webhook, registryVars, cacheVars, historyVars,
                   taskVars>>

\* the uncaught_postback_handler of lines 117-119 is over
UncaughtReturn(outcome) ==
    /\ pc = "uncaught"
    /\ IF outcome = "ok"
       THEN NextEntry(Returned(outcome))
       ELSE Raise(outcome, "handler", Returned(outcome))
    /\ UNCHANGED <<self, webhook, registryVars, cacheVars, historyVars,
                   taskVars>>

\* await callback(entry) of line 93 or 100 is over
CallbackReturn(outcome) ==
    /\ pc = "callback"
    /\ IF outcome = "ok"
       THEN InvokeCallbacks(EntryAt(webhook, idx), matched_callbacks, cb + 1,
                            Returned(outcome))
       ELSE Raise(outcome, "handler", Returned(outcome))
    /\ UNCHANGED <<self, webhook, registryVars, cacheVars, historyVars,
                   taskVars>>

\* handle_webhook has returned or raised; the instance is free again
Finish ==
    /\ pc \in {"done", "raised"}
    /\ self' = None
    /\ webhook' = <<>>
    /\ Goto("idle", 0, <<>>, 0, NoExc, <<>>)
    /\ UNCHANGED <<registryVars, cacheVars, historyVars, taskVars>>

\* ------------------------------------------------------------ two coroutines
\* the handle_webhook coroutine that is running
Running ==
    [pc |-> pc, self |-> self, webhook |-> webhook, idx |-> idx,
     matched_callbacks |-> matched_callbacks, cb |-> cb, exc |-> exc,
     trace |-> trace]

\* history: the <<rule set, pattern>> pairs that are registered and have no
\* compiled matcher yet
Uncompiled ==
    {<<"quick_reply", quick_reply_callbacks[k][1]>> :
        k \in {j \in DOMAIN quick_reply_callbacks :
                  quick_reply_callbacks[j][1]
                      \notin DOMAIN quick_reply_callbacks_key_regex}}
      \cup
    {<<"button", button_callbacks[k][1]>> :
        k \in {j \in DOMAIN button_callbacks :
                  button_callbacks[j][1]
                      \notin DOMAIN button_callbacks_key_regex}}

\* two requests are in flight on instance w: handle_entry has started one
\* handle_webhook coroutine for each, the first runs and the second waits
\* for its first step
HandleWebhooks(w, entries, later) ==
    /\ pc = "idle"
    /\ other.pc = "idle"
    /\ self' = w
    /\ webhook' = entries
    /\ Goto("entry", 1, <<>>, 0, NoExc, <<>>)
    /\ other' = [NoTask EXCEPT !.pc = "entry", !.self = w, !.webhook = later,
                               !.idx = 1]
    /\ cold' = Uncompiled
    /\ UNCHANGED <<registryVars, cacheVars, historyVars>>

\* mutant of Switch: the list of matched callbacks is not local to the
\* coroutine, the resumed one goes on with the list of the suspended one
SwitchSharedMatches ==
    /\ pc # "entry"
    /\ other.pc # "idle"
    /\ pc' = other.pc
    /\ self' = other.self
    /\ webhook' = other.webhook
    /\ idx' = other.idx
    /\ matched_callbacks' = matched_callbacks
    /\ cb' = other.cb
    /\ exc' = other.exc
    /\ trace' = other.trace
    /\ other' = Running
    /\ UNCHANGED <<registryVars, cacheVars, historyVars, cold>>

\* the event loop leaves the running coroutine at the await it stands at
\* (or after its end) and resumes the other one
Switch ==
    /\ pc # "entry"
    /\ other.pc # "idle"
    /\ pc' = other.pc
    /\ self' = other.self
    /\ webhook' = other.webhook
    /\ idx' = other.idx
    /\ matched_callbacks' = other.matched_callbacks
    /\ cb' = other.cb
    /\ exc' = other.exc
    /\ trace' = other.trace
    /\ other' = Running
    /\ UNCHANGED <<registryVars, cacheVars, historyVars, cold>>

\* the steps of a running handle_webhook
Dispatch ==
    \/ Entry
    \/ \E outcome \in Outcomes : PrimaryReturn(outcome)
    \/ \E outcome \in Outcomes : DynamicReturn(outcome)
    \/ \E outcome \in Outcomes : UncaughtReturn(outcome)
    \/ \E outcome \in Outcomes : CallbackReturn(outcome)
    \/ Finish

\* Spec: both dispatch modes, every primary handler table, one pattern
\* registration that installs both patterns in both rule sets, one fallback
Next ==
    \/ \E w \in Instances, t \in EntryTypes, func \in Funcs : Add(w, t, func)
    \/ \E w \in Instances :
          AddPostbackHandler(w, <<AnyAfterA, AOrB>>, TRUE, TRUE, "g")
    \/ \E w \in Instances : SetUncaughtPostbackHandler(w, "g")
    \/ \E w \in Instances, entries \in Batches(Entries) : HandleWebhook(w, entries)
    \/ Dispatch

Spec == Init /\ [][Next]_vars

\* SpecDynamic: dynamic mode, every kind of payload, with and without a
\* fallback and a primary handler for postbacks
InitDynamic == Init /\ dynamic_import = [w \in Instances |-> TRUE]

NextDynamic ==
    \/ \E w \in Instances : Add(w, "PostbackEvent", "f")
    \/ \E w \in Instances, func \in Funcs : SetUncaughtPostbackHandler(w, func)
    \/ \E w \in Instances, entries \in Batches(DynamicEntries) :
          HandleWebhook(w, entries)
    \/ Entry
    \/ \E outcome \in Outcomes : PrimaryReturn(outcome)
    \/ \E outcome \in Outcomes : DynamicReturn(outcome)
    \/ \E outcome \in Outcomes : UncaughtReturn(outcome)
    \/ Finish

SpecDynamic == InitDynamic /\ [][NextDynamic]_vars

\* SpecPattern: pattern mode, every pattern registration
InitPattern == Init /\ dynamic_import = [w \in Instances |-> FALSE]

NextPattern ==
    \/ \E w \in Instances, regexes \in RegexLists, quick_reply \in BOOLEAN,
          button \in BOOLEAN, func \in Funcs :
          AddPostbackHandler(w, regexes, quick_reply, button, func)
    \/ \E w \in Instances, entries \in Batches(PatternEntries) :
          HandleWebhook(w, entries)
    \/ Entry
    \/ \E outcome \in {"ok", "RuntimeError"} : CallbackReturn(outcome)
    \/ Finish

SpecPattern == InitPattern /\ [][NextPattern]_vars

\* SpecHooks: the three handler tables, both dispatch modes, one pattern
\* rule and one fallback
NextHooks ==
    \/ \E w \in Instances, t \in HookTypes, func \in Funcs : Add(w, t, func)
    \/ \E w \in Instances, t \in HookTypes, func \in HookFuncs : AddPre(w, t, func)
    \/ \E w \in Instances, t \in HookTypes, func \in HookFuncs : AddPost(w, t, func)
    \/ \E w \in Instances : AddPostbackHandler(w, <<AOrB>>, TRUE, TRUE, "g")
    \/ \E w \in Instances : SetUncaughtPostbackHandler(w, "g")
    \/ \E w \in Instances, entries \in Batches(HookEntries) :
          HandleWebhook(w, entries)
    \/ Entry
    \/ \E outcome \in {"ok", "RuntimeError"} : PrimaryReturn(outcome)
    \/ \E outcome \in {"ok", "RuntimeError"} : DynamicReturn(outcome)
    \/ \E outcome \in {"ok", "RuntimeError"} : UncaughtReturn(outcome)
    \/ \E outcome \in {"ok", "RuntimeError"} : CallbackReturn(outcome)
    \/ Finish

SpecHooks == Init /\ [][NextHooks]_vars

\* SpecMalformed: pattern mode with a pattern string re.compile rejects
NextMalformed ==
    \/ \E w \in Instances, regexes \in MalformedLists, quick_reply \in BOOLEAN,
          button \in BOOLEAN :
          AddPostbackHandler(w, regexes, quick_reply, button, "f")
    \/ \E w \in Instances, entries \in Batches(PatternEntries) :
          HandleWebhook(w, entries)
    \/ Entry
    \/ \E outcome \in {"ok", "RuntimeError"} : CallbackReturn(outcome)
    \/ Finish

SpecMalformed == InitPattern /\ [][NextMalformed]_vars

\* SpecShared: two WebhookHandler objects in pattern mode, each registering
\* its own callable
InitShared ==
    /\ dynamic_import = [w \in TwoInstances |-> FALSE]
    /\ uncaught_postback_handler = [w \in TwoInstances |-> None]
    /\ webhook_handlers = [t \in EntryTypes |-> None]
    /\ quick_reply_callbacks = <<>>
    /\ button_callbacks = <<>>
    /\ pre_webhook_handlers = [w \in TwoInstances |-> [t \in EntryTypes |-> None]]
    /\ post_webhook_handlers = [w \in TwoInstances |-> [t \in EntryTypes |-> None]]
    /\ quick_reply_callbacks_key_regex = <<>>
    /\ button_callbacks_key_regex = <<>>
    /\ compiles = <<>>
    /\ pc = "idle"
    /\ self = None
    /\ webhook = <<>>
    /\ idx = 0
    /\ matched_callbacks = <<>>
    /\ cb = 0
    /\ exc = NoExc
    /\ trace = <<>>
    /\ registered = [s \in RuleSets |-> <<>>]
    /\ latest = [s \in RuleSets |-> [p \in Patterns |-> None]]
    /\ superseded = [s \in RuleSets |-> [p \in Patterns |-> {}]]
    /\ other = NoTask
    /\ cold = {}

NextShared ==
    \/ \E w \in TwoInstances : Add(w, "PostbackEvent", OwnFunc(w))
    \/ \E w \in TwoInstances, quick_reply \in BOOLEAN, button \in BOOLEAN :
          AddPostbackHandler(w, <<AOrB>>, quick_reply, button, OwnFunc(w))
    \/ \E w \in TwoInstances, entries \in Batches(SharedEntries) :
          HandleWebhook(w, entries)
    \/ Entry
    \/ \E outcome \in {"ok", "RuntimeError"} : PrimaryReturn(outcome)
    \/ \E outcome \in {"ok", "RuntimeError"} : CallbackReturn(outcome)
    \/ Finish

SpecShared == InitShared /\ [][NextShared]_vars

\* SpecConcurrent: pattern mode, two handle_webhook coroutines on one event
\* loop, two rules for quick replies and one for postbacks; registrations
\* are made while no dispatch is in flight
NextConcurrent ==
    \/ \E w \in Instances : other.pc = "idle" /\ Add(w, "MessagesEvent", "f")
    \/ \E w \in Instances :
          /\ other.pc = "idle"
          /\ AddPostbackHandler(w, <<AnyAfterA, AOrB>>, TRUE, FALSE, "g")
    \/ \E w \in Instances :
          /\ other.pc = "idle"
          /\ AddPostbackHandler(w, <<AOrB>>, FALSE, TRUE, "g")
    \/ \E w \in Instances, entries \in Batches(ConcurrentEntries),
          later \in Batches(ConcurrentEntries) :
          HandleWebhooks(w, entries, later)
    \/ Switch
    \/ Entry
    \/ \E outcome \in {"ok", "RuntimeError"} : PrimaryReturn(outcome)
    \/ \E outcome \in {"ok", "RuntimeError"} : CallbackReturn(outcome)
    \/ Finish

SpecConcurrent == InitPattern /\ [][NextConcurrent]_vars

\* SpecRegistration: the registration phase: every pattern registration,
\* with a primary handler, a pre hook, a post hook and a fallback
NextRegistration ==
    \/ \E w \in Instances : Add(w, "PostbackEvent", "f")
    \/ \E w \in Instances : AddPre(w, "PostbackEvent", "g")
    \/ \E w \in Instances : AddPost(w, "PostbackEvent", "h")
    \/ \E w \in Instances : SetUncaughtPostbackHandler(w, "f")
    \/ \E w \in Instances, regexes \in RegistrationLists, quick_reply \in BOOLEAN,
          button \in BOOLEAN, func \in Funcs :
          AddPostbackHandler(w, regexes, quick_reply, button, func)

SpecRegistration == InitPattern /\ [][NextRegistration]_vars

\* ------------------------------------------------------------ properties
\* the invocations of one kind made for the i-th entry of the batch
Calls(i, kind) ==
    {k \in DOMAIN trace : trace[k].ev = i /\ trace[k].kind = kind}

\* the for loop has taken up the i-th entry and is past its handler lookup
PrimaryStepDone(i) == i < idx \/ (i = idx /\ pc # "entry")

\* the entries the spec sends through payload routing
Routed(entry) ==
    \/ entry.type = "MessagesEvent" /\ entry.is_quick_reply
    \/ entry.type = "PostbackEvent"

\* no application callable has raised in the running dispatch
NoHandlerRaised ==
    \A k \in DOMAIN trace : trace[k].outcome \in {"running", "ok"}

\* C1: a primary handler H registered for type T is invoked exactly once
\* for every entry of type T the dispatch loop takes up, with that entry
\* (all entries of type T once handle_webhook has returned), in both modes;
\* it is never invoked for an entry the loop has not taken up.
C1_PrimaryHandlerOncePerEntry ==
    \A i \in DOMAIN webhook :
        LET H == webhook_handlers[webhook[i].type] IN
        H # None =>
            /\ Cardinality(Calls(i, "primary")) =
                   IF PrimaryStepDone(i) \/ pc = "done" THEN 1 ELSE 0
            /\ \A k \in Calls(i, "primary") :
                   trace[k].func = H /\ trace[k].entry = webhook[i]

C1_Witness ==
    /\ pc = "done"
    /\ Len(webhook) = 2
    /\ dynamic_import[self]
    /\ webhook[1].type = "PostbackEvent"
    /\ webhook[2].type = "OtherEvent"
    /\ \A i \in 1..2 :
          /\ webhook_handlers[webhook[i].type] # None
          /\ Cardinality(Calls(i, "primary")) = 1

\* C2: when no entry of the batch has a primary handler for its type and
\* no application callable raises, handle_webhook invokes no primary
\* handler and does not raise, whatever the mode and the entry types.
C2_NoPrimaryHandlerNoRaise ==
    (/\ \A i \in DOMAIN webhook : webhook_handlers[webhook[i].type] = None
     /\ NoHandlerRaised)
        => /\ \A k \in DOMAIN trace : trace[k].kind # "primary"
           /\ pc # "raised"

\* C3: an exception raised by an application callable (primary handler,
\* matched callback, resolved function) leaves handle_webhook as it is:
\* nothing is invoked after it, the fallback included.
C3_HandlerErrorsPropagate ==
    \A k \in DOMAIN trace :
        trace[k].outcome \notin {"running", "ok"} =>
            /\ k = Len(trace)
            /\ pc = "raised"
            /\ exc.type = trace[k].outcome
            /\ exc.origin = "handler"

\* C6: invocations follow the batch: an invocation begins only when every
\* earlier one of the dispatch is over, each is made with the entry of its
\* position, and positions never go back.
C6_OneInvocationAtATime ==
    /\ \A k \in DOMAIN trace : trace[k].outcome = "running" => k = Len(trace)
    /\ \A k \in DOMAIN trace :
          /\ trace[k].ev \in DOMAIN webhook
          /\ trace[k].ev <= idx
          /\ trace[k].entry = webhook[trace[k].ev]
    /\ \A k, l \in DOMAIN trace : k < l => trace[k].ev <= trace[l].ev
    /\ (pc \in {"primary", "dynamic", "uncaught", "callback"}) <=>
          (trace # <<>> /\ trace[Len(trace)].outcome = "running")

C6_Witness ==
    /\ pc = "callback"
    /\ idx = 2
    /\ cb = 2
    /\ Cardinality(Calls(1, "primary")) = 1
    /\ Cardinality(Calls(1, "callback")) = 2
    /\ Cardinality(Calls(2, "callback")) = 2
    /\ \A k \in 1..(Len(trace) - 1) : trace[k].outcome = "ok"

\* C9: on an instance with dynamic_import true no pattern callback is
\* invoked; on an instance with dynamic_import false neither the dynamic
\* resolver nor the fallback handler is.
C9_ModeFixedPerInstance ==
    self # None =>
        IF dynamic_import[self]
        THEN /\ \A k \in DOMAIN trace : trace[k].kind # "callback"
             /\ matched_callbacks = <<>>
             /\ exc.type # "re.error"
        ELSE /\ \A k \in DOMAIN trace : trace[k].kind \notin {"dynamic", "uncaught"}
             /\ exc.type \notin {"TypeError", "AttributeError"}

C9_Witness ==
    /\ pc = "done"
    /\ dynamic_import[self]
    /\ DictHas(quick_reply_callbacks, AOrB)
    /\ \E k \in DOMAIN trace :
          /\ trace[k].kind = "dynamic"
          /\ trace[k].entry = MessagesEvent(TRUE, Resolvable)
          /\ RegexMatch(Compile(AOrB \o <<"$">>), trace[k].entry.payload)

\* C10: only quick-reply message entries and postback entries reach
\* payload routing: for every other entry nothing but the primary handler
\* is invoked and the router raises nothing.
C10_RoutingOnlyForQuickReplyAndPostback ==
    /\ \A k \in DOMAIN trace :
          trace[k].kind # "primary" => Routed(trace[k].entry)
    /\ exc.origin = "router" => Routed(webhook[exc.ev])
    /\ pc \in {"dynamic", "uncaught", "callback"} => Routed(webhook[idx])

C10_Witness ==
    /\ pc = "done"
    /\ webhook = <<MessagesEvent(FALSE, Resolvable), OtherEvent(Resolvable)>>
    /\ DictHas(quick_reply_callbacks, AOrB)
    /\ webhook_handlers["MessagesEvent"] # None
    /\ webhook_handlers["OtherEvent"] = None
    /\ Len(trace) = 1
    /\ trace[1].kind = "primary"

\* the payload fits the template but names no importable module or no
\* attribute of the module
Unresolvable(payload) ==
    LET parsed == Parse(payload) IN
    /\ parsed # NoResult
    /\ \/ parsed.import_path \notin ImportableModules
       \/ parsed.function_name \notin ModuleAttrs(parsed.import_path)

\* what the claims ask for an entry without a route: the router raises
\* nothing, no resolved function runs, and the fallback, if one is set, is
\* invoked once with the entry
FallsBack(i) ==
    /\ ~(pc = "raised" /\ exc.ev = i /\ exc.origin = "router")
    /\ Calls(i, "dynamic") = {}
    /\ \A k \in Calls(i, "uncaught") :
          /\ trace[k].func = uncaught_postback_handler[self]
          /\ trace[k].entry = webhook[i]
    /\ i < idx =>
          Cardinality(Calls(i, "uncaught")) =
              IF uncaught_postback_handler[self] # None THEN 1 ELSE 0

\* C4: in dynamic mode a payload module:function whose module or function
\* is not found raises nothing; the fallback is invoked once with the
\* entry when one is registered, and the entry is dropped otherwise.
C4_UnresolvedRouteFallsBack ==
    \A i \in DOMAIN webhook :
        (/\ dynamic_import[self]
         /\ Routed(webhook[i])
         /\ Unresolvable(webhook[i].payload)) => FallsBack(i)

\* C5: in dynamic mode a payload without the ':' separator is handled as
\* an unresolved route: fallback if registered, dropped otherwise, and no
\* exception.
C5_MalformedPayloadFallsBack ==
    \A i \in DOMAIN webhook :
        (/\ dynamic_import[self]
         /\ Routed(webhook[i])
         /\ Parse(webhook[i].payload) = NoResult) => FallsBack(i)

\* the rule set an entry is matched against
RuleSetOf(entry) ==
    IF entry.type = "MessagesEvent" THEN "quick_reply" ELSE "button"

\* by the registration history: the patterns that match the entry's
\* payload, in order of first registration, each with the callable last
\* registered under it
ExpectedCallbacks(entry) ==
    LET s == RuleSetOf(entry)
        Match(p) == RegexMatch(Compile(p \o <<"$">>), entry.payload)
        keys == SelectSeq(registered[s], Match)
    IN [k \in DOMAIN keys |-> [key |-> keys[k], func |-> latest[s][keys[k]]]]

\* the callbacks invoked for the i-th entry, in the order of invocation
MadeCallbacks(i) ==
    LET Mine(r) == r.ev = i /\ r.kind = "callback"
        calls == SelectSeq(trace, Mine)
    IN [k \in DOMAIN calls |-> [key |-> calls[k].key, func |-> calls[k].func]]

IsPrefix(a, b) == Len(a) <= Len(b) /\ SubSeq(b, 1, Len(a)) = a

\* C7: in pattern mode the callbacks invoked for an entry are those of
\* all the registered patterns that match its payload, in the order the
\* patterns were first registered: always a prefix of that list, and the
\* whole list once the loop is past the entry.
C7_FanOutInRegistrationOrder ==
    \A i \in DOMAIN webhook :
        (~dynamic_import[self] /\ Routed(webhook[i])) =>
            /\ IsPrefix(MadeCallbacks(i), ExpectedCallbacks(webhook[i]))
            /\ i < idx => MadeCallbacks(i) = ExpectedCallbacks(webhook[i])

C7_Witness ==
    /\ pc = "done"
    /\ webhook[1] = MessagesEvent(TRUE, NoSeparator)
    /\ superseded["quick_reply"][AOrB] # {}
    /\ MadeCallbacks(1) = << [key |-> AOrB, func |-> "g"],
                             [key |-> AnyAfterA, func |-> "f"] >>

\* C8: a pattern registered again holds the later callable only: every
\* callback invoked for a pattern is the one last registered under it,
\* never one that was replaced, at most once per entry, and exactly once
\* for a matching entry the loop is past.
C8_ReRegistrationReplaces ==
    /\ \A k \in DOMAIN trace :
          trace[k].kind = "callback" =>
              LET s == RuleSetOf(trace[k].entry)
                  p == trace[k].key
              IN /\ trace[k].func = latest[s][p]
                 /\ trace[k].func \notin superseded[s][p]
                 /\ \A l \in Calls(trace[k].ev, "callback") :
                       l # k => trace[l].key # p
    /\ \A i \in DOMAIN webhook, p \in Patterns :
          (/\ ~dynamic_import[self]
           /\ Routed(webhook[i])
           /\ i < idx
           /\ latest[RuleSetOf(webhook[i])][p] # None
           /\ RegexMatch(Compile(p \o <<"$">>), webhook[i].payload))
              => Cardinality({k \in Calls(i, "callback") : trace[k].key = p}) = 1

C8_Witness ==
    /\ pc = "done"
    /\ webhook = <<PostbackEvent(Resolvable)>>
    /\ superseded["button"][AOrB] = {"f"}
    /\ latest["button"][AOrB] = "g"
    /\ Len(trace) = 1
    /\ trace[1].kind = "callback"
    /\ trace[1].key = AOrB
    /\ trace[1].func = "g"
    /\ trace[1].outcome = "ok"

\* C11: add_pre, add and add_post each put the callable under the given
\* type in their own table, whatever was there before (the last
\* registration wins), and leave the other two tables and the entries of
\* every other type and instance as they were.
C11_HandlerTablesIndependent ==
    [][\A w \in Instances, t \in EntryTypes, func \in Funcs \cup HookFuncs :
          /\ Add(w, t, func) =>
                /\ webhook_handlers'[t] = func
                /\ \A u \in EntryTypes \ {t} :
                      webhook_handlers'[u] = webhook_handlers[u]
                /\ pre_webhook_handlers' = pre_webhook_handlers
                /\ post_webhook_handlers' = post_webhook_handlers
          /\ AddPre(w, t, func) =>
                /\ pre_webhook_handlers'[w][t] = func
                /\ \A v \in Instances, u \in EntryTypes :
                      <<v, u>> # <<w, t>> =>
                          pre_webhook_handlers'[v][u] = pre_webhook_handlers[v][u]
                /\ webhook_handlers' = webhook_handlers
                /\ post_webhook_handlers' = post_webhook_handlers
          /\ AddPost(w, t, func) =>
                /\ post_webhook_handlers'[w][t] = func
                /\ \A v \in Instances, u \in EntryTypes :
                      <<v, u>> # <<w, t>> =>
                          post_webhook_handlers'[v][u] = post_webhook_handlers[v][u]
                /\ webhook_handlers' = webhook_handlers
                /\ pre_webhook_handlers' = pre_webhook_handlers]_vars

C11_Witness ==
    /\ webhook_handlers["PostbackEvent"] = "f"
    /\ pre_webhook_handlers["w1"]["PostbackEvent"] = "g"
    /\ post_webhook_handlers["w1"]["PostbackEvent"] = "h"
    /\ webhook_handlers["MessagesEvent"] = "g"
    /\ pre_webhook_handlers["w1"]["MessagesEvent"] = "h"
    /\ post_webhook_handlers["w1"]["MessagesEvent"] = None

\* the alternative consumes the whole of s: one character per element
MatchesWhole(alt, s) ==
    /\ Len(alt) = Len(s)
    /\ \A i \in DOMAIN alt :
          IF alt[i] = "." THEN s[i] # "\n" ELSE s[i] = alt[i]

\* the pattern matches the whole string: one of its alternatives does
FullMatch(source, s) ==
    \E k \in DOMAIN Alternatives(source) :
        MatchesWhole(Alternatives(source)[k], s)

\* C12: a callback is collected and invoked only under a pattern that
\* matches the whole payload; a pattern that matches a proper prefix only
\* yields no callback, patterns with a top-level alternation included.
C12_WholePayloadMatch ==
    /\ \A k \in DOMAIN trace :
          trace[k].kind = "callback" =>
              FullMatch(trace[k].key, trace[k].entry.payload)
    /\ pc = "callback" =>
          \A k \in DOMAIN matched_callbacks :
              FullMatch(matched_callbacks[k].key, webhook[idx].payload)

\* C13: a pattern string that does not compile is refused when it is
\* registered, so no rule set ever holds one, and no match operation of
\* handle_webhook fails on a stored pattern.
C13_MalformedPatternRefusedAtRegistration ==
    /\ \A k \in DOMAIN quick_reply_callbacks :
          ~CompileFails(quick_reply_callbacks[k][1] \o <<"$">>)
    /\ \A k \in DOMAIN button_callbacks :
          ~CompileFails(button_callbacks[k][1] \o <<"$">>)
    /\ exc.type # "re.error"

\* C14: every dispatcher owns its registries: the primary handlers and
\* pattern callbacks that handle_webhook of an instance invokes are those
\* registered through that instance, never those of another one.
C14_RegistriesPerInstance ==
    self # None =>
        \A k \in DOMAIN trace :
            trace[k].kind \in {"primary", "callback"} =>
                trace[k].func = OwnFunc(self)

\* C15: the callables registered with add_pre and add_post are only
\* stored: every invocation handle_webhook makes is of the primary handler
\* of the entry's type, the callback of a matching rule, the resolved
\* function or the fallback, at most one primary invocation per entry, and
\* a callable registered as a hook only is never invoked, in both modes.
C15_HooksNeverInvoked ==
    /\ \A k \in DOMAIN trace :
          /\ trace[k].kind = "primary" =>
                trace[k].func = webhook_handlers[trace[k].entry.type]
          /\ trace[k].kind = "callback" =>
                trace[k].func =
                    DictGet(IF trace[k].entry.type = "MessagesEvent"
                            THEN quick_reply_callbacks ELSE button_callbacks,
                            trace[k].key)
          /\ trace[k].kind = "uncaught" =>
                trace[k].func = uncaught_postback_handler[self]
          /\ trace[k].kind = "dynamic" =>
                LET parsed == Parse(trace[k].entry.payload) IN
                trace[k].func = ModuleFunction(parsed.import_path,
                                               parsed.function_name)
          /\ trace[k].func \notin HookFuncs \ Funcs
    /\ \A i \in DOMAIN webhook : Cardinality(Calls(i, "primary")) <= 1

C15_Witness ==
    /\ pc = "done"
    /\ dynamic_import[self]
    /\ webhook = <<MessagesEvent(TRUE, Resolvable), PostbackEvent(NoSuchModule)>>
    /\ webhook_handlers["MessagesEvent"] = "f"
    /\ pre_webhook_handlers[self]["MessagesEvent"] = "h"
    /\ post_webhook_handlers[self]["MessagesEvent"] = "h"
    /\ webhook_handlers["PostbackEvent"] = None
    /\ pre_webhook_handlers[self]["PostbackEvent"] = "h"
    /\ post_webhook_handlers[self]["PostbackEvent"] = "g"
    /\ uncaught_postback_handler[self] = None
    /\ Len(trace) = 2
    /\ trace[1].kind = "primary"
    /\ trace[2].kind = "dynamic"

\* C16: the matcher of a pattern string is compiled once and reused: over
\* all registrations and match operations no pattern string is compiled a
\* second time, also when it is installed in both rule sets or registered
\* again with another callable.
C16_CompiledOnce ==
    \A key \in DOMAIN compiles : compiles[key] <= 1

\* the callbacks a coroutine has invoked for the i-th entry of its batch,
\* in the order of invocation
CallbacksOf(task, i) ==
    LET Mine(r) == r.ev = i /\ r.kind = "callback"
        calls == SelectSeq(task.trace, Mine)
    IN [k \in DOMAIN calls |-> [key |-> calls[k].key, func |-> calls[k].func]]

\* every cached matcher is the one compiled from its pattern and the end
\* anchor
CacheSound(key_regex) ==
    \A key \in DOMAIN key_regex : key_regex[key] = Compile(key \o <<"$">>)

\* the coroutine's callbacks are those a dispatch running alone makes: the
\* rules that match, in registration order
MatchesAsAlone(task) ==
    \A i \in DOMAIN task.webhook :
        Routed(task.webhook[i]) =>
            /\ IsPrefix(CallbacksOf(task, i), ExpectedCallbacks(task.webhook[i]))
            /\ i < task.idx =>
                  CallbacksOf(task, i) = ExpectedCallbacks(task.webhook[i])
            /\ \A k \in DOMAIN task.trace :
                  task.trace[k].kind = "callback" =>
                      task.trace[k].key \in
                          DOMAIN (IF task.trace[k].entry.type = "MessagesEvent"
                                  THEN quick_reply_callbacks_key_regex
                                  ELSE button_callbacks_key_regex)

\* C17: two handle_webhook coroutines interleaved at their awaits keep the
\* matcher caches consistent: every cached pattern maps to the matcher of
\* the pattern with the end anchor, every pattern used is cached, and each
\* coroutine invokes the callbacks it would invoke running alone.
C17_ConcurrentFirstUse ==
    /\ CacheSound(quick_reply_callbacks_key_regex)
    /\ CacheSound(button_callbacks_key_regex)
    /\ MatchesAsAlone(Running)
    /\ MatchesAsAlone(other)

C17_Witness ==
    /\ pc = "callback"
    /\ other.pc = "callback"
    /\ <<"quick_reply", AOrB>> \in cold
    /\ webhook = <<MessagesEvent(TRUE, NoSeparator)>>
    /\ other.webhook = <<MessagesEvent(TRUE, NoSeparator)>>
    /\ Len(trace) = 2
    /\ Len(other.trace) = 3
    /\ trace[1].kind = "primary"
    /\ other.trace[1].kind = "primary"
    /\ trace[2].key = AnyAfterA
    /\ other.trace[3].key = AOrB
    /\ compiles[AOrB] = 1

\* C18: for a quick-reply or postback entry whose type has a primary
\* handler, the handler and the payload routing both run, the handler
\* first: every routed invocation and every router exception of the entry
\* comes after the primary handler has returned, and once the loop is past
\* the entry the routing has been done (pattern mode: the callbacks of all
\* matching rules; dynamic mode: the resolved function, or the fallback
\* for a module that is not found).
C18_PrimaryThenRouting ==
    \A i \in DOMAIN webhook :
        (Routed(webhook[i]) /\ webhook_handlers[webhook[i].type] # None) =>
            LET PrimaryOver(k) ==
                    \E j \in 1..(k - 1) :
                        /\ trace[j].ev = i
                        /\ trace[j].kind = "primary"
                        /\ trace[j].outcome = "ok"
                parsed == Parse(webhook[i].payload)
            IN /\ \A k \in DOMAIN trace :
                     (trace[k].ev = i /\ trace[k].kind # "primary") => PrimaryOver(k)
               /\ (pc = "raised" /\ exc.ev = i /\ exc.origin = "router") =>
                     PrimaryOver(Len(trace) + 1)
               /\ i < idx =>
                     /\ PrimaryOver(Len(trace) + 1)
                     /\ ~dynamic_import[self] =>
                           MadeCallbacks(i) = ExpectedCallbacks(webhook[i])
                     /\ (dynamic_import[self] /\ parsed # NoResult) =>
                           IF parsed.import_path \notin ImportableModules
                           THEN Cardinality(Calls(i, "uncaught")) =
                                    IF uncaught_postback_handler[self] # None
                                    THEN 1 ELSE 0
                           ELSE Cardinality(Calls(i, "dynamic")) = 1

C18_Witness ==
    /\ pc = "done"
    /\ ~dynamic_import[self]
    /\ webhook = <<MessagesEvent(TRUE, NoSeparator), PostbackEvent(NoSeparator)>>
    /\ webhook_handlers["MessagesEvent"] = "f"
    /\ webhook_handlers["PostbackEvent"] = "g"
    /\ Len(trace) = 6
    /\ trace[1].kind = "primary"
    /\ trace[2].kind = "callback"
    /\ trace[3].kind = "callback"
    /\ trace[4].kind = "primary"
    /\ trace[5].kind = "callback"
    /\ trace[6].kind = "callback"

\* the invocations of the running dispatch that have raised
RaisedCalls == {k \in DOMAIN trace : trace[k].outcome \notin {"running", "ok"}}

\* C19: when an invocation raises, dispatch stops there: its exception is
\* the one that leaves handle_webhook, for the entry it was made for, and
\* nothing is invoked after it, neither for that entry nor for a later one.
C19_FirstErrorStopsDispatch ==
    RaisedCalls # {} =>
        LET first == CHOOSE k \in RaisedCalls : \A l \in RaisedCalls : k <= l
        IN /\ Len(trace) = first
           /\ pc = "raised"
           /\ idx = trace[first].ev
           /\ exc = [type |-> trace[first].outcome, ev |-> trace[first].ev,
                     origin |-> "handler"]

\* the dict after is the dict before with func under every pattern of
\* regexes and every other key as it was
Inserted(before, after, regexes, func) ==
    LET Given(key) == \E k \in DOMAIN regexes : regexes[k] = key IN
    /\ \A k \in DOMAIN regexes :
          DictHas(after, regexes[k]) /\ DictGet(after, regexes[k]) = func
    /\ \A j \in DOMAIN before :
          ~Given(before[j][1]) =>
              /\ DictHas(after, before[j][1])
              /\ DictGet(after, before[j][1]) = before[j][2]
    /\ \A j \in DOMAIN after : Given(after[j][1]) \/ DictHas(before, after[j][1])

\* C20: add_postback_handler puts the callable into the selected rule sets
\* only: the quick-reply set is unchanged when quick_reply is false, the
\* button set when button is false, both when regexes is None; a selected
\* set gets the callable under every given pattern and keeps its other
\* keys; the primary, pre and post tables and the fallback never change.
C20_PostbackRegistrationFrame ==
    [][\A w \in Instances, regexes \in RegistrationLists,
          quick_reply \in BOOLEAN, button \in BOOLEAN, func \in Funcs :
          AddPostbackHandler(w, regexes, quick_reply, button, func) =>
              /\ IF quick_reply /\ regexes # NoRegexes
                 THEN Inserted(quick_reply_callbacks, quick_reply_callbacks',
                               regexes, func)
                 ELSE quick_reply_callbacks' = quick_reply_callbacks
              /\ IF button /\ regexes # NoRegexes
                 THEN Inserted(button_callbacks, button_callbacks', regexes, func)
                 ELSE button_callbacks' = button_callbacks
              /\ webhook_handlers' = webhook_handlers
              /\ pre_webhook_handlers' = pre_webhook_handlers
              /\ post_webhook_handlers' = post_webhook_handlers
              /\ uncaught_postback_handler' = uncaught_postback_handler]_vars

C20_Witness ==
    /\ quick_reply_callbacks = << <<AOrB, "f">> >>
    /\ button_callbacks = << <<AnyAfterA, "g">>, <<AOrB, "g">> >>
    /\ webhook_handlers["PostbackEvent"] = "f"
    /\ pre_webhook_handlers["w1"]["PostbackEvent"] = "g"
    /\ post_webhook_handlers["w1"]["PostbackEvent"] = "h"
    /\ uncaught_postback_handler["w1"] = "f"

====
